---- MODULE Spec2Model ----
(***************************************************************************)
(* Chart helpers of Anomaly-Detection-Demo: plots_plotly.py and            *)
(* plots_matplotlib.py.  A drawing surface (a plotly Figure, or a          *)
(* matplotlib Axes with its Figure) is a sequence of drawn elements plus a *)
(* layout; every helper appends elements or restyles the layout and hands  *)
(* the surface back.  Tables are pandas DataFrames: an index and named     *)
(* columns of the same length.                                             *)
(***************************************************************************)
EXTENDS Integers, Sequences, FiniteSets, TLC

VARIABLES backend, time_series, surface, last

vars == <<backend, time_series, surface, last>>

\* Longest series (number of timestamps) the caller hands in.
MaxLen == 2
\* Most elements a surface holds before the caller stops drawing on it.
MaxElems == 5

Backends == {"matplotlib", "plotly"}

----------------------------------------------------------------------------
\* Tables and arrays

\* Positions of a sequence
Idx(s) == 1..Len(s)

\* A DataFrame: a time index and columns aligned with it.
DataFrame(index, cols) == [index |-> index, cols |-> cols]

HasCol(df, c) == c \in DOMAIN df.cols

\* time_series.copy(); time_series[c] = values  (values already of the index's length)
WithCol(df, c, values) ==
    [df EXCEPT !.cols = [k \in (DOMAIN df.cols) \cup {c} |->
                            IF k = c THEN values ELSE df.cols[k]]]

\* expected_bounds[:, j]  (numpy column j, 0-based, of a two-column array)
Column(arr, j) == [i \in Idx(arr) |-> arr[i][j + 1]]

\* EqOne with the comparison inverted (is_anomaly != 1).
EqOne_Inverted(mask) == [i \in Idx(mask) |-> mask[i] # 1]

\* is_anomaly == 1
EqOne(mask) == [i \in Idx(mask) |-> mask[i] = 1]

\* The subsequence of s at the positions where keep is TRUE, in order.
RECURSIVE Select(_, _)
Select(s, keep) ==
    IF s = <<>> THEN <<>>
    ELSE LET rest == Select(Tail(s), Tail(keep))
         IN  IF Head(keep) THEN <<Head(s)>> \o rest ELSE rest

\* df[keep] for a boolean array of the index's length: the rows kept, every column.
BoolIndex(df, keep) ==
    [index |-> Select(df.index, keep),
     cols  |-> [k \in DOMAIN df.cols |-> Select(df.cols[k], keep)]]

----------------------------------------------------------------------------
\* Surfaces, elements and call results

\* An element of a surface with nothing set.
BlankElem ==
    [kind |-> "", mode |-> "", x |-> <<>>, y |-> <<>>, y2 |-> <<>>, name |-> "",
     color |-> "", width |-> "", size |-> "", fill |-> "none", fillcolor |-> "",
     alpha |-> "", showlegend |-> TRUE, zorder |-> ""]

\* A layout with nothing set but the title the caller gave the surface.
BlankLayout(title) ==
    [title |-> title, xtitle |-> "", ytitle |-> "", size |-> "default",
     grid |-> FALSE, tick_rotation |-> 0, tight |-> FALSE,
     hovermode |-> "default", showlegend |-> "default", rangeselector |-> <<>>,
     rangeslider |-> FALSE, xaxis_type |-> "default", fixedrange |-> "default"]

\* go.Figure() / plt.subplots(): a surface with no element
NewSurface(handle, title) ==
    [handle |-> handle, elems |-> <<>>, layout |-> BlankLayout(title)]

\* AddElem putting the new element first instead of last.
AddElem_Prepend(s, e) == [s EXCEPT !.elems = <<e>> \o @]

\* fig.add_trace(trace) / the artist a matplotlib drawing call adds
AddElem(s, e) == [s EXCEPT !.elems = Append(@, e)]

\* A call that returned ret, leaving the surface as s.
Return(s, ret) ==
    [surface |-> s, status |-> "ok", exc |-> "none", level |-> "none",
     within |-> "none", ret |-> ret]

\* A call that raised exc in function `within`; level says which library raised:
\* "table" (pandas / numpy) or "chart" (the charting library, inside a drawing call).
Raise(s, exc, level, within) ==
    [surface |-> s, status |-> "error", exc |-> exc, level |-> level,
     within |-> within, ret |-> "none"]

----------------------------------------------------------------------------
\* plots_plotly.py

\* go.Scatter(x=..., y=..., mode="lines", name=name, line={"color": color})
plotly_LineTrace(x_values, y_values, name, color) ==
    [BlankElem EXCEPT !.kind = "Scatter", !.mode = "lines", !.x = x_values,
                      !.y = y_values, !.name = name, !.color = color]

plotly_add_line(fig, x_values, y_values, name, color) ==
    Return(AddElem(fig, plotly_LineTrace(x_values, y_values, name, color)), fig.handle)

\* The range-selector buttons of update_layout, by label.
plotly_Buttons == <<"day", "week", "month", "all">>

\* fig.update_layout(...): sets the named properties and no other.
plotly_Layout(layout) ==
    [layout EXCEPT !.title = "Time Series", !.xtitle = "Time", !.ytitle = "Value",
                   !.size = "height=600", !.hovermode = "x unified",
                   !.showlegend = "True", !.rangeselector = plotly_Buttons,
                   !.rangeslider = TRUE, !.xaxis_type = "date",
                   !.fixedrange = "False"]

plotly_update_layout(fig) ==
    Return([fig EXCEPT !.layout = plotly_Layout(@)], fig.handle)

plotly_ForecastTrace(ds, y) ==
    [BlankElem EXCEPT !.kind = "Scatter", !.mode = "lines", !.x = ds, !.y = y,
                      !.name = "Forecast", !.color = "rgba(31, 119, 180, 0.8)"]

\* plotly_UpperTrace without line=dict(width=0): a drawn line.
plotly_UpperTrace_Visible(ds, y) ==
    [BlankElem EXCEPT !.kind = "Scatter", !.mode = "lines", !.x = ds, !.y = y,
                      !.name = "Upper Bound", !.showlegend = FALSE]

plotly_UpperTrace(ds, y) ==
    [BlankElem EXCEPT !.kind = "Scatter", !.mode = "lines", !.x = ds, !.y = y,
                      !.name = "Upper Bound", !.width = "0", !.showlegend = FALSE]

plotly_LowerTrace(ds, y) ==
    [BlankElem EXCEPT !.kind = "Scatter", !.mode = "lines", !.x = ds, !.y = y,
                      !.name = "Lower Bound", !.width = "0", !.showlegend = FALSE,
                      !.fill = "tonexty", !.fillcolor = "rgba(31, 119, 180, 0.2)"]

\* Each trace is built (its column looked up) before it is added, so a missing
\* column raises KeyError with the traces added so far left on the figure.
plotly_add_confidence_interval(fig, forecast) ==
    LET ds == forecast.index
        kw == "plotly.add_confidence_interval"
    IN  IF ~HasCol(forecast, "expected") THEN Raise(fig, "KeyError", "table", kw)
        ELSE LET f1 == AddElem(fig, plotly_ForecastTrace(ds, forecast.cols["expected"]))
             IN  IF ~HasCol(forecast, "upper") THEN Raise(f1, "KeyError", "table", kw)
                 ELSE LET f2 == AddElem(f1, plotly_UpperTrace(ds, forecast.cols["upper"]))
                      IN  IF ~HasCol(forecast, "lower")
                          THEN Raise(f2, "KeyError", "table", kw)
                          ELSE Return(AddElem(f2, plotly_LowerTrace(ds, forecast.cols["lower"])),
                                      fig.handle)

\* go.Scatter takes x and y of any lengths; nothing is checked here.
plotly_add_points(fig, x_values, y_values, name, color) ==
    Return(AddElem(fig, [BlankElem EXCEPT !.kind = "Scatter", !.mode = "markers",
                                          !.x = x_values, !.y = y_values,
                                          !.name = name, !.color = color,
                                          !.size = "10"]),
           fig.handle)

\* The working copy of add_anomalies: time_series.copy() with the three columns
\* assigned in turn; an array whose length is not the index's raises ValueError.
\* [ok, df]: ok is FALSE when an assignment raised.
plotly_Augment(time_series_, expected_values, expected_bounds) ==
    LET n  == Len(time_series_.index)
        up == Column(expected_bounds, 0)
        lo == Column(expected_bounds, 1)
    IN  IF Len(expected_values) # n \/ Len(up) # n \/ Len(lo) # n
        THEN [ok |-> FALSE, df |-> time_series_]
        ELSE [ok |-> TRUE,
              df |-> WithCol(WithCol(WithCol(time_series_, "expected", expected_values),
                                     "upper", up), "lower", lo)]

\* plotly_add_anomalies drawing the band of the filtered rows, not of the full table.
plotly_add_anomalies_BandOfAnomalies(fig, time_series_, is_anomaly, expected_values, expected_bounds) ==
    LET kw  == "plotly.add_anomalies"
        aug == plotly_Augment(time_series_, expected_values, expected_bounds)
    IN  IF ~aug.ok THEN Raise(fig, "ValueError", "table", kw)
        ELSE IF Len(is_anomaly) # Len(aug.df.index)
        THEN Raise(fig, "ValueError", "table", kw)
        ELSE LET anomaly_points == BoolIndex(aug.df, EqOne(is_anomaly))
             IN  IF ~HasCol(anomaly_points, "value_0")
                 THEN Raise(fig, "KeyError", "table", kw)
                 ELSE LET r == plotly_add_points(fig, anomaly_points.index,
                                                 anomaly_points.cols["value_0"],
                                                 "Anomalies", "red")
                      IN  IF r.status # "ok" THEN r
                          ELSE plotly_add_confidence_interval(r.surface, anomaly_points)

plotly_add_anomalies(fig, time_series_, is_anomaly, expected_values, expected_bounds) ==
    LET kw  == "plotly.add_anomalies"
        aug == plotly_Augment(time_series_, expected_values, expected_bounds)
    IN  IF ~aug.ok THEN Raise(fig, "ValueError", "table", kw)
        \* time_series[is_anomaly == 1]: a boolean key of another length raises
        ELSE IF Len(is_anomaly) # Len(aug.df.index)
        THEN Raise(fig, "ValueError", "table", kw)
        ELSE LET anomaly_points == BoolIndex(aug.df, EqOne(is_anomaly))
             IN  IF ~HasCol(anomaly_points, "value_0")
                 THEN Raise(fig, "KeyError", "table", kw)
                 ELSE LET r == plotly_add_points(fig, anomaly_points.index,
                                                 anomaly_points.cols["value_0"],
                                                 "Anomalies", "red")
                      IN  IF r.status # "ok" THEN r
                          ELSE plotly_add_confidence_interval(r.surface, aug.df)

----------------------------------------------------------------------------
\* plots_matplotlib.py

\* ax.plot(x, y, ...): x and y of different lengths raise ValueError inside
\* matplotlib; otherwise one Line2D is added.
mpl_plot(ax, x, y, name, color, linewidth, within) ==
    IF Len(x) # Len(y) THEN Raise(ax, "ValueError", "chart", within)
    ELSE Return(AddElem(ax, [BlankElem EXCEPT !.kind = "Line2D", !.x = x, !.y = y,
                                             !.name = name, !.color = color,
                                             !.width = linewidth]),
                ax.handle)

mpl_add_line(ax, x_values, y_values, name, color) ==
    mpl_plot(ax, x_values, y_values, name, color, "1.5", "matplotlib.add_line")

\* mpl_Layout with ax.grid() called without True: the grid toggles.
mpl_Layout_GridToggle(layout) ==
    [layout EXCEPT !.title = "Time Series", !.xtitle = "Time", !.ytitle = "Value",
                   !.size = "20x8in", !.grid = ~@, !.tick_rotation = 45,
                   !.tight = TRUE]

\* ax.set_title / set_xlabel / set_ylabel, fig.set_size_inches, ax.grid(True),
\* the tick-label rotation and fig.tight_layout()
mpl_Layout(layout) ==
    [layout EXCEPT !.title = "Time Series", !.xtitle = "Time", !.ytitle = "Value",
                   !.size = "20x8in", !.grid = TRUE, !.tick_rotation = 45,
                   !.tight = TRUE]

mpl_update_layout(ax, fig) ==
    Return([ax EXCEPT !.layout = mpl_Layout(@)], ax.handle)

\* ax.fill_between(ds, lower, upper, ...): one PolyCollection from y to y2
mpl_FillBetween(ds, lower, upper) ==
    [BlankElem EXCEPT !.kind = "PolyCollection", !.x = ds, !.y = lower, !.y2 = upper,
                      !.name = "Confidence Interval",
                      !.color = "(31/255, 119/255, 180/255)", !.alpha = "0.2"]

\* mpl_add_confidence_interval skipping the band when a bound column is missing.
mpl_add_confidence_interval_Lenient(ax, forecast) ==
    LET ds == forecast.index
        kw == "matplotlib.add_confidence_interval"
    IN  IF ~HasCol(forecast, "expected") THEN Raise(ax, "KeyError", "table", kw)
        ELSE LET r == mpl_plot(ax, ds, forecast.cols["expected"], "Forecast",
                               "(31/255, 119/255, 180/255, 0.8)", "2", kw)
             IN  IF r.status # "ok" THEN r
                 ELSE IF ~HasCol(forecast, "lower") \/ ~HasCol(forecast, "upper")
                 THEN Return(r.surface, ax.handle)
                 ELSE Return(AddElem(r.surface,
                                     mpl_FillBetween(ds, forecast.cols["lower"],
                                                     forecast.cols["upper"])),
                             ax.handle)

\* mpl_add_confidence_interval looking up the three columns before drawing anything.
mpl_add_confidence_interval_Atomic(ax, forecast) ==
    LET ds == forecast.index
        kw == "matplotlib.add_confidence_interval"
    IN  IF ~HasCol(forecast, "expected") \/ ~HasCol(forecast, "lower")
           \/ ~HasCol(forecast, "upper")
        THEN Raise(ax, "KeyError", "table", kw)
        ELSE LET r == mpl_plot(ax, ds, forecast.cols["expected"], "Forecast",
                               "(31/255, 119/255, 180/255, 0.8)", "2", kw)
             IN  IF r.status # "ok" THEN r
                 ELSE Return(AddElem(r.surface,
                                     mpl_FillBetween(ds, forecast.cols["lower"],
                                                     forecast.cols["upper"])),
                             ax.handle)

\* The arguments of each drawing call are looked up before the call: a missing
\* "expected" raises before the line, a missing "lower" or "upper" after it.
mpl_add_confidence_interval(ax, forecast) ==
    LET ds == forecast.index
        kw == "matplotlib.add_confidence_interval"
    IN  IF ~HasCol(forecast, "expected") THEN Raise(ax, "KeyError", "table", kw)
        ELSE LET r == mpl_plot(ax, ds, forecast.cols["expected"], "Forecast",
                               "(31/255, 119/255, 180/255, 0.8)", "2", kw)
             IN  IF r.status # "ok" THEN r
                 ELSE IF ~HasCol(forecast, "lower") \/ ~HasCol(forecast, "upper")
                 THEN Raise(r.surface, "KeyError", "table", kw)
                 ELSE Return(AddElem(r.surface,
                                     mpl_FillBetween(ds, forecast.cols["lower"],
                                                     forecast.cols["upper"])),
                             ax.handle)

\* ax.scatter(x, y, ...): x and y of different sizes raise ValueError inside
\* matplotlib; otherwise one PathCollection with one marker per point is added.
mpl_add_points(ax, x_values, y_values, name, color) ==
    IF Len(x_values) # Len(y_values)
    THEN Raise(ax, "ValueError", "chart", "matplotlib.add_points")
    ELSE Return(AddElem(ax, [BlankElem EXCEPT !.kind = "PathCollection",
                                             !.mode = "markers", !.x = x_values,
                                             !.y = y_values, !.name = name,
                                             !.color = color, !.size = "50",
                                             !.zorder = "5"]),
                ax.handle)

\* mpl_Augment reading column 0 as lower and column 1 as upper.
mpl_Augment_Swapped(time_series_, expected_values, expected_bounds) ==
    LET n  == Len(time_series_.index)
        up == Column(expected_bounds, 1)
        lo == Column(expected_bounds, 0)
    IN  IF Len(expected_values) # n \/ Len(up) # n \/ Len(lo) # n
        THEN [ok |-> FALSE, df |-> time_series_]
        ELSE [ok |-> TRUE,
              df |-> WithCol(WithCol(WithCol(time_series_, "expected", expected_values),
                                     "upper", up), "lower", lo)]

\* The working copy of add_anomalies, as in plots_plotly.py.
mpl_Augment(time_series_, expected_values, expected_bounds) ==
    LET n  == Len(time_series_.index)
        up == Column(expected_bounds, 0)
        lo == Column(expected_bounds, 1)
    IN  IF Len(expected_values) # n \/ Len(up) # n \/ Len(lo) # n
        THEN [ok |-> FALSE, df |-> time_series_]
        ELSE [ok |-> TRUE,
              df |-> WithCol(WithCol(WithCol(time_series_, "expected", expected_values),
                                     "upper", up), "lower", lo)]

\* mpl_add_anomalies drawing the band before the markers.
mpl_add_anomalies_BandFirst(ax, time_series_, is_anomaly, expected_values, expected_bounds) ==
    LET kw  == "matplotlib.add_anomalies"
        aug == mpl_Augment(time_series_, expected_values, expected_bounds)
    IN  IF ~aug.ok THEN Raise(ax, "ValueError", "table", kw)
        ELSE IF Len(is_anomaly) # Len(aug.df.index)
        THEN Raise(ax, "ValueError", "table", kw)
        ELSE LET anomaly_points == BoolIndex(aug.df, EqOne(is_anomaly))
             IN  IF ~HasCol(anomaly_points, "value_0")
                 THEN Raise(ax, "KeyError", "table", kw)
                 ELSE LET r == mpl_add_confidence_interval(ax, aug.df)
                      IN  IF r.status # "ok" THEN r
                          ELSE mpl_add_points(r.surface, anomaly_points.index,
                                              anomaly_points.cols["value_0"],
                                              "Anomalies", "red")

\* mpl_add_anomalies selecting rows position by position up to the shorter of mask
\* and table, so that a mask of another length does not raise.
mpl_add_anomalies_LenientMask(ax, time_series_, is_anomaly, expected_values, expected_bounds) ==
    LET kw  == "matplotlib.add_anomalies"
        aug == mpl_Augment(time_series_, expected_values, expected_bounds)
    IN  IF ~aug.ok THEN Raise(ax, "ValueError", "table", kw)
        ELSE LET keep == [i \in Idx(aug.df.index) |->
                             i <= Len(is_anomaly) /\ is_anomaly[i] = 1]
                 anomaly_points == BoolIndex(aug.df, keep)
             IN  IF ~HasCol(anomaly_points, "value_0")
                 THEN Raise(ax, "KeyError", "table", kw)
                 ELSE LET r == mpl_add_points(ax, anomaly_points.index,
                                              anomaly_points.cols["value_0"],
                                              "Anomalies", "red")
                      IN  IF r.status # "ok" THEN r
                          ELSE mpl_add_confidence_interval(r.surface, aug.df)

mpl_add_anomalies(ax, time_series_, is_anomaly, expected_values, expected_bounds) ==
    LET kw  == "matplotlib.add_anomalies"
        aug == mpl_Augment(time_series_, expected_values, expected_bounds)
    IN  IF ~aug.ok THEN Raise(ax, "ValueError", "table", kw)
        ELSE IF Len(is_anomaly) # Len(aug.df.index)
        THEN Raise(ax, "ValueError", "table", kw)
        ELSE LET anomaly_points == BoolIndex(aug.df, EqOne(is_anomaly))
             IN  IF ~HasCol(anomaly_points, "value_0")
                 THEN Raise(ax, "KeyError", "table", kw)
                 ELSE LET r == mpl_add_points(ax, anomaly_points.index,
                                              anomaly_points.cols["value_0"],
                                              "Anomalies", "red")
                      IN  IF r.status # "ok" THEN r
                          ELSE mpl_add_confidence_interval(r.surface, aug.df)

----------------------------------------------------------------------------
\* The caller: one surface, one time series, any sequence of calls

\* The caller's series of n timestamps: a time index and the column "value_0".
Series(n, base) ==
    DataFrame([i \in 1..n |-> 10 * i], [value_0 |-> [i \in 1..n |-> base - i]])

SeriesInputs == {Series(n, base) : n \in 1..MaxLen, base \in {7, 9}}

\* Ones(m): the mask of length m that flags every row
Ones(m) == [i \in 1..m |-> 1]

\* Arrays aligned with a series of n rows: expected values, and two-column bound
\* arrays with column 0 above column 1 or below it.
ExpectedArray(n) == [i \in 1..n |-> 50 + i]

BoundArrays(n) ==
    {[i \in 1..n |-> <<100 + i, 10 + i>>], [i \in 1..n |-> <<10 + i, 100 + i>>]}

\* Arguments offered to add_anomalies for a series of n rows: every 0/1 mask of
\* length n with aligned arrays, and calls with one argument misaligned (a mask
\* one shorter or one longer, expected values one short, bounds one row short).
AnomalyInputs(n) ==
    {[is_anomaly |-> m, expected_values |-> ExpectedArray(n), expected_bounds |-> b] :
        m \in [1..n -> {0, 1}], b \in BoundArrays(n)}
    \cup {[is_anomaly |-> Ones(k), expected_values |-> ExpectedArray(n),
           expected_bounds |-> b] : k \in {n - 1, n + 1}, b \in BoundArrays(n)}
    \cup {[is_anomaly |-> Ones(n), expected_values |-> ExpectedArray(n - 1),
           expected_bounds |-> b] : b \in BoundArrays(n)}
    \cup {[is_anomaly |-> Ones(n), expected_values |-> ExpectedArray(n),
           expected_bounds |-> b] : b \in BoundArrays(n - 1)}

\* Forecast tables offered to add_confidence_interval: the series' index with any
\* subset of the columns expected, lower, upper, of equal length.
ForecastInputs ==
    LET n    == Len(time_series.index)
        full == [expected |-> [i \in 1..n |-> 50 + i],
                 lower    |-> [i \in 1..n |-> 10 + i],
                 upper    |-> [i \in 1..n |-> 100 + i]]
    IN  {DataFrame(time_series.index, [c \in cs |-> full[c]]) :
            cs \in SUBSET {"expected", "lower", "upper"}}

\* y sequences offered to add_line / add_points with x = the index: the column
\* value_0, or a sequence one short of it.
YInputs ==
    LET v == time_series.cols["value_0"]
    IN  {v, SubSeq(v, 1, Len(v) - 1)}

NoCall ==
    [op |-> "none", args |-> <<>>, repeat |-> FALSE, handle |-> "none", n0 |-> 0,
     status |-> "ok", exc |-> "none", level |-> "none", within |-> "none", ret |-> "none"]

Init ==
    /\ backend \in Backends
    /\ time_series \in SeriesInputs
    /\ surface = NewSurface(IF backend = "plotly" THEN "fig" ELSE "ax", "")
    /\ last = NoCall

\* One call op(surface, args) with result res: the surface is left as the call left
\* it, and the call is remembered: its arguments, whether it repeats the call
\* before it, the handle passed, the number of elements before it, its outcome.
Call(op, args, res) ==
    /\ surface' = res.surface
    /\ last' = [op |-> op, args |-> args,
                repeat |-> (last.op = op /\ last.args = args),
                handle |-> surface.handle,
                n0 |-> Len(surface.elems), status |-> res.status, exc |-> res.exc,
                level |-> res.level, within |-> res.within, ret |-> res.ret]
    /\ UNCHANGED <<backend, time_series>>

\* Room for k more elements
Room(k) == Len(surface.elems) + k <= MaxElems

PlotlyAddLine ==
    /\ backend = "plotly" /\ Room(1)
    /\ \E y \in YInputs :
          Call("add_line", [x |-> time_series.index, y |-> y],
               plotly_add_line(surface, time_series.index, y, "Series", "blue"))

PlotlyUpdateLayout ==
    /\ backend = "plotly"
    /\ Call("update_layout", <<>>, plotly_update_layout(surface))

PlotlyAddConfidenceInterval ==
    /\ backend = "plotly" /\ Room(3)
    /\ \E forecast \in ForecastInputs :
          Call("add_confidence_interval", [forecast |-> forecast],
               plotly_add_confidence_interval(surface, forecast))

PlotlyAddPoints ==
    /\ backend = "plotly" /\ Room(1)
    /\ \E y \in YInputs :
          Call("add_points", [x |-> time_series.index, y |-> y],
               plotly_add_points(surface, time_series.index, y, "Anomalies", "red"))

PlotlyAddAnomalies ==
    /\ backend = "plotly" /\ Room(4)
    /\ \E a \in AnomalyInputs(Len(time_series.index)) :
          Call("add_anomalies", a,
               plotly_add_anomalies(surface, time_series, a.is_anomaly, a.expected_values,
                  a.expected_bounds))

MplAddLine ==
    /\ backend = "matplotlib" /\ Room(1)
    /\ \E y \in YInputs :
          Call("add_line", [x |-> time_series.index, y |-> y],
               mpl_add_line(surface, time_series.index, y, "Series", "blue"))

MplUpdateLayout ==
    /\ backend = "matplotlib"
    /\ Call("update_layout", <<>>, mpl_update_layout(surface, "figure"))

MplAddConfidenceInterval ==
    /\ backend = "matplotlib" /\ Room(2)
    /\ \E forecast \in ForecastInputs :
          Call("add_confidence_interval", [forecast |-> forecast],
               mpl_add_confidence_interval(surface, forecast))

MplAddPoints ==
    /\ backend = "matplotlib" /\ Room(1)
    /\ \E y \in YInputs :
          Call("add_points", [x |-> time_series.index, y |-> y],
               mpl_add_points(surface, time_series.index, y, "Anomalies", "red"))

MplAddAnomalies ==
    /\ backend = "matplotlib" /\ Room(3)
    /\ \E a \in AnomalyInputs(Len(time_series.index)) :
          Call("add_anomalies", a,
               mpl_add_anomalies(surface, time_series, a.is_anomaly, a.expected_values,
                  a.expected_bounds))

Next ==
    \/ PlotlyAddLine
    \/ PlotlyUpdateLayout
    \/ PlotlyAddConfidenceInterval
    \/ PlotlyAddPoints
    \/ PlotlyAddAnomalies
    \/ MplAddLine
    \/ MplUpdateLayout
    \/ MplAddConfidenceInterval
    \/ MplAddPoints
    \/ MplAddAnomalies

Spec == Init /\ [][Next]_vars

----------------------------------------------------------------------------
\* Reading a surface

\* The elements the last call added.
Added == SubSeq(surface.elems, last.n0 + 1, Len(surface.elems))

\* The call op has just returned / just raised.
Returned(op) == last.op = op /\ last.status = "ok"
Raised(op) == last.op = op /\ last.status = "error"

\* A marker element (a scatter of unconnected points), and its markers in order.
IsMarkers(e) == e.mode = "markers"
MarkersOf(e) == [i \in Idx(e.x) |-> <<e.x[i], e.y[i]>>]

\* A drawn (visible) line: a Line2D, or a lines trace of non-zero width.
IsLine(e) ==
    \/ e.kind = "Line2D"
    \/ e.kind = "Scatter" /\ e.mode = "lines" /\ e.width # "0" /\ e.fill = "none"

\* A boundary of a plotly band: a zero-width lines trace hidden from the legend.
IsBoundary(e) ==
    e.kind = "Scatter" /\ e.mode = "lines" /\ e.width = "0" /\ ~e.showlegend

\* The positions of es at which a shaded band is complete: a fill_between region,
\* or a boundary trace filled to the boundary trace just before it.
BandAt(es) ==
    {i \in Idx(es) :
        \/ es[i].kind = "PolyCollection"
        \/ /\ IsBoundary(es[i]) /\ es[i].fill = "tonexty"
           /\ i > 1 /\ IsBoundary(es[i - 1]) /\ es[i - 1].fill = "none"}

\* The band completed at position i of es: its timestamps and its two boundaries.
Band(es, i) ==
    IF es[i].kind = "PolyCollection"
    THEN [x |-> es[i].x, lower |-> es[i].y, upper |-> es[i].y2]
    ELSE [x |-> es[i].x, lower |-> es[i].y, upper |-> es[i - 1].y]

\* The positions of es that make up its bands.
BandParts(es) ==
    BandAt(es) \cup {i - 1 : i \in {j \in BandAt(es) : es[j].kind = "Scatter"}}

LinesAt(es) == {i \in Idx(es) : IsLine(es[i])}
MarkersAt(es) == {i \in Idx(es) : IsMarkers(es[i])}

\* The number of markers drawn by the elements of es.
RECURSIVE NMarkers(_)
NMarkers(es) ==
    IF es = <<>> THEN 0
    ELSE (IF IsMarkers(Head(es)) THEN Len(Head(es).x) ELSE 0) + NMarkers(Tail(es))

N == Len(time_series.index)

----------------------------------------------------------------------------
\* C1: an all-zeros mask aligned with the series makes add_anomalies, in either
\* backend, draw no marker (the scatter element it appends is empty) and still draw
\* a confidence band over all N timestamps.
AllZeros(mask) == \A i \in Idx(mask) : mask[i] = 0

----------------------------------------------------------------------------
\* C2: for every series and every aligned 0/1 mask, the markers add_anomalies draws
\* are exactly the (timestamp, value_0) pairs of the rows whose mask entry is 1, one
\* per such row, in row order, and none elsewhere; an all-ones mask gives N markers.
Flagged == {i \in 1..N : last.args.is_anomaly[i] = 1}

RowPair(i) == <<time_series.index[i], time_series.cols["value_0"][i]>>

C2_MarkersAreFlaggedRows ==
    (Returned("add_anomalies") /\ Len(last.args.is_anomaly) = N)
    => /\ Cardinality(MarkersAt(Added)) = 1
       /\ \A k \in MarkersAt(Added) :
             LET ms == MarkersOf(Added[k])
             IN  /\ Len(Added[k].y) = Len(Added[k].x)
                 /\ Len(ms) = Cardinality(Flagged)
                 /\ {ms[j] : j \in Idx(ms)} = {RowPair(i) : i \in Flagged}
                 /\ \A j1, j2 \in Idx(ms) : j1 < j2 => ms[j1][1] < ms[j2][1]
       /\ NMarkers(Added) = Cardinality(Flagged)
       /\ (Flagged = 1..N => NMarkers(Added) = N)

C2_Witness ==
    /\ Returned("add_anomalies") /\ backend = "matplotlib" /\ N = MaxLen
    /\ Len(last.args.is_anomaly) = N
    /\ Flagged # {} /\ Flagged # 1..N /\ 1 \notin Flagged

\* C3: the band add_anomalies draws has, at every timestamp i, upper boundary
\* expected_bounds[i, 0] and lower boundary expected_bounds[i, 1], and the forecast
\* line drawn with it passes through expected_values[i].
C3_BandFollowsColumnOrder ==
    Returned("add_anomalies")
    => /\ Cardinality(BandAt(Added)) = 1
       /\ \A b \in BandAt(Added) : \A i \in 1..N :
             /\ Band(Added, b).x[i] = time_series.index[i]
             /\ Band(Added, b).upper[i] = last.args.expected_bounds[i][1]
             /\ Band(Added, b).lower[i] = last.args.expected_bounds[i][2]
       /\ Cardinality(LinesAt(Added)) = 1
       /\ \A l \in LinesAt(Added) : \A i \in 1..N :
             /\ Added[l].x[i] = time_series.index[i]
             /\ Added[l].y[i] = last.args.expected_values[i]

C3_Witness ==
    /\ Returned("add_anomalies") /\ backend = "matplotlib" /\ N = MaxLen
    /\ \A i \in 1..N : last.args.expected_bounds[i] = <<100 + i, 10 + i>>
    /\ \E b \in BandAt(Added) :
          Band(Added, b).upper[1] = 101 /\ Band(Added, b).lower[1] = 11

\* C4: for a forecast table with the columns expected, lower and upper, one call of
\* add_confidence_interval adds exactly one drawn line and exactly one shaded band
\* and nothing else, in each backend (two artists in matplotlib; in plotly the line
\* and the two zero-width boundary traces that make up the band).
FullTable(forecast) == {"expected", "lower", "upper"} \subseteq DOMAIN forecast.cols

C4_OneLineOneBand ==
    (last.op = "add_confidence_interval" /\ FullTable(last.args.forecast))
    => /\ last.status = "ok"
       /\ Cardinality(LinesAt(Added)) = 1
       /\ Cardinality(BandAt(Added)) = 1
       /\ LinesAt(Added) \cup BandParts(Added) = Idx(Added)
       /\ LinesAt(Added) \cap BandParts(Added) = {}
       /\ Len(Added) = IF backend = "plotly" THEN 3 ELSE 2

C4_Witness ==
    /\ last.op = "add_confidence_interval" /\ FullTable(last.args.forecast)
    /\ backend = "plotly" /\ last.n0 > 0 /\ Len(Added) = 3

\* C5: when the forecast table lacks any one of expected, lower, upper, the call of
\* add_confidence_interval ends in an error handed to the caller and returns no
\* surface, in each backend.
C5_MissingColumnRaises ==
    (last.op = "add_confidence_interval" /\ ~FullTable(last.args.forecast))
    => /\ last.status = "error"
       /\ last.exc = "KeyError"
       /\ last.ret = "none"

C5_Witness ==
    /\ last.op = "add_confidence_interval" /\ backend = "matplotlib"
    /\ DOMAIN last.args.forecast.cols = {"expected", "lower"}
    /\ last.status = "error"

\* C6: update_layout is idempotent: called a second time right after a first, on a
\* surface reached by any drawing calls, it leaves the title, the axis titles, the
\* rest of the layout and the drawn elements exactly as the first call left them.
C6_UpdateLayoutIdempotent ==
    [][(last'.op = "update_layout" /\ last'.repeat) => surface' = surface]_vars

C6_Witness ==
    /\ last.op = "update_layout" /\ last.repeat /\ last.status = "ok"
    /\ Len(surface.elems) >= 2
    /\ surface.layout.title = "Time Series"
    /\ surface.layout.xtitle = "Time" /\ surface.layout.ytitle = "Value"

\* C7 as stated: a mask whose length differs from the series' makes add_anomalies
\* fail with an error raised by the charting library, inside a drawing call
\* (add_points or add_confidence_interval), not earlier.
DrawingCalls ==
    {"plotly.add_points", "plotly.add_confidence_interval",
     "matplotlib.add_points", "matplotlib.add_confidence_interval"}

C7_FailsInsideDrawingCall ==
    (last.op = "add_anomalies" /\ Len(last.args.is_anomaly) # N)
    => /\ last.status = "error"
       /\ last.level = "chart"
       /\ last.within \in DrawingCalls

\* C7 amended: a mask whose length differs from the series' makes add_anomalies
\* fail, with no length check of its own, with a ValueError raised by the table
\* library in add_anomalies' own statements (the column assignments or the
\* boolean-mask selection), before any drawing call: nothing is drawn.
C7_FailsAtTableBeforeDrawing ==
    (last.op = "add_anomalies" /\ Len(last.args.is_anomaly) # N)
    => /\ last.status = "error"
       /\ last.exc = "ValueError"
       /\ last.level = "table"
       /\ last.within \in {"plotly.add_anomalies", "matplotlib.add_anomalies"}
       /\ Added = <<>>

C7_Witness ==
    /\ last.op = "add_anomalies" /\ backend = "plotly"
    /\ Len(last.args.is_anomaly) = N + 1
    /\ Len(last.args.expected_values) = N /\ Len(last.args.expected_bounds) = N
    /\ last.status = "error" /\ last.n0 > 0

\* C8: in every successful add_anomalies the marker element is appended first, then
\* the forecast line, then the band, and the band and the line cover every
\* timestamp of the series whatever the mask.
C8_MarkersThenLineThenBand ==
    Returned("add_anomalies")
    => /\ Len(Added) >= 3
       /\ IsMarkers(Added[1])
       /\ IsLine(Added[2]) /\ Added[2].name = "Forecast"
       /\ MarkersAt(Added) = {1} /\ LinesAt(Added) = {2}
       /\ BandParts(Added) = 3..Len(Added) /\ BandAt(Added) = {Len(Added)}
       /\ Added[2].x = time_series.index
       /\ \A i \in BandParts(Added) : Added[i].x = time_series.index

C8_Witness ==
    /\ Returned("add_anomalies") /\ backend = "plotly" /\ N = MaxLen
    /\ Len(last.args.is_anomaly) = N
    /\ Flagged # 1..N
    /\ Len(Added[1].x) < N /\ Len(Added[4].x) = N

\* C9: over any sequence of calls on one surface, each successful call returns the
\* handle it was given, and the elements present before the call are still there,
\* unchanged and in the same order, after it; update_layout adds and removes none.
IsPrefix(s, t) == Len(s) <= Len(t) /\ SubSeq(t, 1, Len(s)) = s

C9_SameHandleElementsKept ==
    [][last'.status = "ok"
        => /\ last'.ret = last'.handle
           /\ last'.handle = surface.handle
           /\ surface'.handle = surface.handle
           /\ IsPrefix(surface.elems, surface'.elems)
           /\ last'.n0 = Len(surface.elems)
           /\ (last'.op = "update_layout" => surface'.elems = surface.elems)]_vars

C9_Witness ==
    /\ Returned("add_anomalies") /\ backend = "matplotlib"
    /\ last.n0 >= 2 /\ Len(Added) = 3
    /\ last.ret = "ax"

\* C10 as stated: add_confidence_interval given a table with expected but without
\* upper or lower raises with exactly the Forecast line added; without expected it
\* raises with nothing added; a failed add_anomalies never leaves a band without
\* the markers.
LacksBound(forecast) ==
    /\ "expected" \in DOMAIN forecast.cols
    /\ ~ {"lower", "upper"} \subseteq DOMAIN forecast.cols

BandWithoutMarkers == BandAt(Added) # {} /\ MarkersAt(Added) = {}

C10_KeepsOnlyForecastLine ==
    /\ (last.op = "add_confidence_interval" /\ LacksBound(last.args.forecast))
       => /\ last.status = "error"
          /\ Len(Added) = 1 /\ IsLine(Added[1]) /\ Added[1].name = "Forecast"
    /\ (last.op = "add_confidence_interval"
            /\ "expected" \notin DOMAIN last.args.forecast.cols)
       => last.status = "error" /\ Added = <<>>
    /\ Raised("add_anomalies") => ~BandWithoutMarkers

\* C10 amended: as stated, except that in plotly a table with expected and upper
\* but without lower leaves two elements behind, the Forecast line and the
\* zero-width "Upper Bound" trace; in every other case of a missing upper or lower
\* exactly the Forecast line is left.
C10_KeepsTracesAddedBeforeRaise ==
    /\ (last.op = "add_confidence_interval" /\ LacksBound(last.args.forecast))
       => /\ last.status = "error"
          /\ Len(Added) >= 1 /\ IsLine(Added[1]) /\ Added[1].name = "Forecast"
          /\ LinesAt(Added) = {1} /\ BandAt(Added) = {}
          /\ IF backend = "plotly" /\ "upper" \in DOMAIN last.args.forecast.cols
             THEN Len(Added) = 2 /\ IsBoundary(Added[2])
                  /\ Added[2].name = "Upper Bound"
             ELSE Len(Added) = 1
    /\ (last.op = "add_confidence_interval"
            /\ "expected" \notin DOMAIN last.args.forecast.cols)
       => last.status = "error" /\ Added = <<>>
    /\ Raised("add_anomalies") => ~BandWithoutMarkers

C10_Witness ==
    /\ last.op = "add_confidence_interval" /\ backend = "plotly"
    /\ DOMAIN last.args.forecast.cols = {"expected", "upper"}
    /\ last.status = "error" /\ Len(Added) = 2 /\ last.n0 > 0

====
